---- MODULE Spec2Model ----
(***************************************************************************)
(* Model of src/include/x86_adapt_plugin.hpp: the x86_adapt Score-P plugin *)
(* (class x86_adapt_plugin) and its per-CPU recorder (class                *)
(* recorder_thread).  Control threads call get_metric_properties (declare),*)
(* add_metric (activate) and get_all_values (harvest); every recorder runs *)
(* recorder_thread::loop on a background thread.                           *)
(***************************************************************************)
EXTENDS Integers, Sequences, FiniteSets, TLC

\* ------------------------------------------------------------------ bounds
MaxActivations == 2   \* add_metric calls issued in one behaviour
MaxHarvests == 2      \* get_all_values calls issued in one behaviour
MaxSamples == 2       \* a loop iteration starts only below this many entries per CPU
MaxTime == 1          \* scorep::chrono::measurement_clock::now() saturates here

\* ------------------------------------------------------------- environment
Threads == {"t1", "t2"}              \* control threads of the host
CPUs == {0, 1}
Masks == {{0}, {1}, {0, 1}}          \* affinity masks a control thread may have
CallerNames == {"freq", "power", "bogus"}   \* knob names a caller may pass
DeviceValues == {100}                \* what a device read may return
SetaffinityResults == {0, -1}        \* what sched_setaffinity may return
NoThread == "none"                   \* init_mutex is free
NullThread == 0                      \* thread_ holds nullptr
Torn == <<-1, -1>>                   \* an entry copied while it was being written

\* x86_adapt_.cpu_configuration_items(): the catalog lookup resolves a name in
Catalog == [freq |-> 1, power |-> 2]
\* std::map<std::string, ...> iterates in key order: "freq" < "power"
NameRank == [freq |-> 1, power |-> 2]

VARIABLES
    knobs_,           \* std::map<std::string, configuration_item>
    recorded_knobs_,  \* std::vector<oid>, handle h is element h + 1
    recorders_,       \* std::map<int, unique_ptr<recorder_thread>>
    values_,          \* std::map<int, std::map<configuration_item, vector>>
    init_mutex,       \* the control thread holding init_mutex, or NoThread
    samplers,         \* the background threads running recorder_thread::loop
    spawned,          \* number of std::thread objects created so far
    clock,            \* the measurement clock
    crashed,          \* std::terminate() or a null dereference ended the process
    affinity,         \* the affinity mask of every control thread
    pc,               \* where every control thread stands
    frame,            \* the locals of the call a control thread is in
    ret,              \* the return (of a plugin call, of stop() or of
                      \* sched_setaffinity) the last step made
    opens,            \* x86_adapt_.cpu(cpu) calls per CPU
    created,          \* recorder_thread objects constructed per CPU
    calls,            \* add_metric calls per control thread
    returned,         \* the handles add_metric has returned
    harvests,         \* get_all_values calls begun per handle
    nDelivered,       \* entries written to a cursor per handle, over all calls
    quiesced          \* per CPU: stop() returned and start() was not called since

vars == <<knobs_, recorded_knobs_, recorders_, values_, init_mutex, samplers,
          spawned, clock, crashed, affinity, pc, frame, ret, opens,
          created, calls, returned, harvests, nDelivered, quiesced>>

registry == <<knobs_, recorded_knobs_, recorders_, values_, init_mutex>>
ghosts == <<opens, created, calls, returned, harvests, nDelivered, quiesced>>

\* ----------------------------------------------------------------- helpers
EmptyMap == [x \in {} |-> 0]

\* std::map::operator[] / emplace of a fresh key
Put(f, k, v) == [x \in (DOMAIN f) \cup {k} |-> IF x = k THEN v ELSE f[x]]

NoFrame == [name |-> "", cpu |-> 0, id |-> 0, tid |-> 0]
NoRet == [t |-> "none", kind |-> "none", val |-> 0, out |-> <<>>]
Return(t, kind, val, out) == [t |-> t, kind |-> kind, val |-> val, out |-> out]
Error(t, e) == Return(t, e, 0, <<>>)

TotalCalls == calls["t1"] + calls["t2"]

RECURSIVE SumSeq(_)
SumSeq(q) == IF q = <<>> THEN 0 ELSE Head(q) + SumSeq(Tail(q))
TotalHarvests == SumSeq(harvests)

\* the timeline of (cpu, item), empty when the key does not exist
TimelineOf(c, i) ==
    IF c \in DOMAIN values_ /\ i \in DOMAIN values_[c] THEN values_[c][i] ELSE <<>>

\* the number of entries in the timelines of a CPU
RECURSIVE Count(_, _)
Count(m, keys) ==
    IF keys = {} THEN 0
    ELSE LET k == CHOOSE x \in keys : TRUE
         IN Len(m[k]) + Count(m, keys \ {k})
Recorded(c) == IF c \in DOMAIN values_ THEN Count(values_[c], DOMAIN values_[c]) ELSE 0

\* the background threads of a CPU's recorder that have not left loop()
Alive(c) == {s \in samplers : s.cpu = c /\ s.pc # "done"}

\* ----------------------------------------------------------------- is_pinned
\* a pinning check that accepts every thread with a non-empty mask
is_pinned_nonempty(t) == Cardinality(affinity[t]) >= 1

\* CPU_COUNT(&cpumask) == 1
is_pinned(t) == Cardinality(affinity[t]) = 1

\* sched_getcpu(): the CPU the calling thread runs on, one of its mask
get_current_cpu(t) == affinity[t]

\* a device opened once for add_metric and once more for the recorder
open_device_twice(c) == [opens EXCEPT ![c] = @ + 2]

\* x86_adapt_.cpu(cpu): one device-open call for that CPU
open_device(c) == [opens EXCEPT ![c] = @ + 1]

Init ==
    /\ knobs_ = EmptyMap
    /\ recorded_knobs_ = <<>>
    /\ recorders_ = EmptyMap
    /\ values_ = EmptyMap
    /\ init_mutex = NoThread
    /\ samplers = {}
    /\ spawned = 0
    /\ clock = 0
    /\ crashed = FALSE
    /\ affinity \in {a \in [Threads -> Masks] : a["t1"] = {0}}
    /\ pc = [t \in Threads |-> "idle"]
    /\ frame = [t \in Threads |-> NoFrame]
    /\ ret = NoRet
    /\ opens = [c \in CPUs |-> 0]
    /\ created = [c \in CPUs |-> 0]
    /\ calls = [t \in Threads |-> 0]
    /\ returned = {}
    /\ harvests = <<>>
    /\ nDelivered = <<>>
    /\ quiesced = [c \in CPUs |-> FALSE]

\* ------------------------------------------------- get_metric_properties
\* x86_adapt_.cpu_configuration_items().lookup(knob_name)
lookup(name) == Catalog[name]

\* an insertion that erases the entry of a key it finds
emplace_or_erase(m, k, v) ==
    IF k \in DOMAIN m THEN [x \in (DOMAIN m) \ {k} |-> m[x]] ELSE Put(m, k, v)

\* std::map::emplace: an existing key keeps its entry
emplace(m, k, v) == IF k \in DOMAIN m THEN m ELSE Put(m, k, v)

\* Lines 154-162: lookup throws for a name the catalog does not hold; otherwise
\* knobs_.emplace keeps an existing entry and the metric property of the item
\* that lookup found is returned.  No lock is taken.
get_metric_properties(t, name) ==
    /\ ~crashed
    /\ pc[t] = "idle"
    /\ IF name \notin DOMAIN Catalog
       THEN /\ ret' = NoRet
            /\ UNCHANGED knobs_
       ELSE /\ knobs_' = emplace(knobs_, name, lookup(name))
            /\ ret' = Return("any", "item", lookup(name), <<name>>)
    /\ UNCHANGED <<recorded_knobs_, recorders_, values_, init_mutex, samplers,
                   spawned, clock, crashed, affinity, pc, frame, ghosts>>

\* ------------------------------------------------------------- add_metric
\* Lines 167-174: the pinning check, get_current_cpu and the device open,
\* all before the lock is taken.
add_metric_begin(t, name) ==
    /\ ~crashed
    /\ pc[t] = "idle"
    /\ TotalCalls < MaxActivations
    /\ calls' = [calls EXCEPT ![t] = @ + 1]
    /\ IF ~is_pinned(t)
       THEN /\ ret' = Error(t, "NotPinned")
            /\ UNCHANGED <<pc, frame, opens>>
       ELSE \E cpu \in get_current_cpu(t) :
            \/ \* sched_getcpu() < 0
               /\ ret' = Error(t, "GetCpuFailed")
               /\ UNCHANGED <<pc, frame, opens>>
            \/ \* x86_adapt_.cpu(cpu) throws
               /\ opens' = open_device(cpu)
               /\ ret' = Error(t, "DeviceOpenFailure")
               /\ UNCHANGED <<pc, frame>>
            \/ /\ opens' = open_device(cpu)
               /\ pc' = [pc EXCEPT ![t] = "am_lock"]
               /\ frame' = [frame EXCEPT ![t] = [NoFrame EXCEPT !.name = name, !.cpu = cpu]]
               /\ ret' = NoRet
    /\ UNCHANGED <<registry, samplers, spawned, clock, crashed, affinity,
                   created, returned, harvests, nDelivered, quiesced>>

\* recorder_thread(device, interval): running_ = false, no thread; the atomic
\* flag has no initializer and is stored to by start() before anything reads it
new_recorder == [running_ |-> FALSE, looping |-> FALSE, thread_ |-> NullThread]

\* the items the handle table holds for a CPU
registered(knobs, c) ==
    {knobs[i].item : i \in {j \in DOMAIN knobs : knobs[j].cpu = c}}

\* std::thread(&recorder_thread::loop, this, ref(cis), ref(timelines), cpumask):
\* the thread starts at the top of loop() with the caller's affinity mask
new_thread(tid, c, mask, knobs) ==
    [tid |-> tid, cpu |-> c, pc |-> "check", it |-> 0, mask |-> mask,
     regd |-> registered(knobs, c)]

\* Line 59: sched_setaffinity(tid, sizeof(cpu_set_t), &cpumask) in the thread
\* that control thread t created.  loop() does not read the result r, so the
\* call leaves nothing in the program's state; the mask of the thread is the
\* one it inherited from t, which is cpumask in either case.
sched_setaffinity(t, r) == Return(t, "sched_setaffinity", r, <<>>)

\* Lines 179-190 and 82-88: lock_guard, id = size(), push_back({knobs_.at(name),
\* cpu}), recorders_.emplace(cpu, make_unique<recorder_thread>(...)),
\* values_[cpu], then start(): looping.store(true), sched_getaffinity,
\* make_unique<std::thread>.  knobs_.at throws std::out_of_range before
\* anything is pushed.  The recorder is constructed also when emplace finds the
\* key and drops it.  The std::thread constructor may throw, which leaves
\* add_metric through the lock_guard with the handle pushed and the flag set.
\* The new thread enters loop() and calls sched_setaffinity.
add_metric_lock(t) ==
    /\ ~crashed
    /\ pc[t] = "am_lock"
    /\ init_mutex = NoThread
    /\ LET name == frame[t].name
           cpu == frame[t].cpu
           id == Len(recorded_knobs_)
       IN IF name \notin DOMAIN knobs_
          THEN /\ ret' = Error(t, "OutOfRange")
               /\ pc' = [pc EXCEPT ![t] = "idle"]
               /\ frame' = [frame EXCEPT ![t] = NoFrame]
               /\ UNCHANGED <<recorded_knobs_, recorders_, values_, init_mutex,
                              samplers, spawned, created, harvests, nDelivered,
                              quiesced>>
          ELSE /\ recorded_knobs_' =
                      Append(recorded_knobs_, [item |-> knobs_[name], cpu |-> cpu])
               /\ harvests' = Append(harvests, 0)
               /\ nDelivered' = Append(nDelivered, 0)
               /\ created' = [created EXCEPT ![cpu] = @ + 1]
               /\ recorders_' =
                      [(IF cpu \in DOMAIN recorders_ THEN recorders_
                        ELSE Put(recorders_, cpu, new_recorder))
                       EXCEPT ![cpu].looping = TRUE]
               /\ values_' = IF cpu \in DOMAIN values_ THEN values_
                             ELSE Put(values_, cpu, EmptyMap)
               /\ quiesced' = [quiesced EXCEPT ![cpu] = FALSE]
               /\ \/ /\ spawned' = spawned + 1
                     /\ samplers' = samplers \cup
                            {new_thread(spawned + 1, cpu, affinity[t], recorded_knobs_')}
                     /\ init_mutex' = t
                     /\ frame' = [frame EXCEPT ![t].id = id, ![t].tid = spawned + 1]
                     /\ pc' = [pc EXCEPT ![t] = "am_assign"]
                     /\ \E r \in SetaffinityResults : ret' = sched_setaffinity(t, r)
                  \/ /\ ret' = Error(t, "SpawnFailed")
                     /\ pc' = [pc EXCEPT ![t] = "idle"]
                     /\ frame' = [frame EXCEPT ![t] = NoFrame]
                     /\ UNCHANGED <<init_mutex, samplers, spawned>>
    /\ UNCHANGED <<knobs_, clock, crashed, affinity, opens, calls, returned>>

\* Lines 87-90 and 192-194: the assignment to thread_ destroys the std::thread
\* it held; a joinable one calls std::terminate().  Otherwise running_ = true,
\* the lock is released and the id is returned.
recorder_start_assign(t) ==
    /\ ~crashed
    /\ pc[t] = "am_assign"
    /\ LET cpu == frame[t].cpu
       IN IF recorders_[cpu].thread_ # NullThread
          THEN /\ crashed' = TRUE
               /\ ret' = NoRet
               /\ UNCHANGED <<recorders_, init_mutex, pc, frame, returned>>
          ELSE /\ recorders_' = [recorders_ EXCEPT ![cpu].thread_ = frame[t].tid,
                                                   ![cpu].running_ = TRUE]
               /\ init_mutex' = NoThread
               /\ ret' = Return(t, "handle", frame[t].id, <<>>)
               /\ returned' = returned \cup {frame[t].id}
               /\ pc' = [pc EXCEPT ![t] = "idle"]
               /\ frame' = [frame EXCEPT ![t] = NoFrame]
               /\ UNCHANGED crashed
    /\ UNCHANGED <<knobs_, recorded_knobs_, values_, samplers, spawned, clock,
                   affinity, opens, created, calls, harvests, nDelivered,
                   quiesced>>

\* ---------------------------------------------------- recorder_thread::loop
\* the next entry of cis after the one of rank `it`
NextNames(it) == {n \in DOMAIN knobs_ : NameRank[n] > it}
NextName(it) ==
    CHOOSE n \in NextNames(it) : \A m \in NextNames(it) : NameRank[n] <= NameRank[m]

Replace(s, new) == (samplers \ {s}) \cup {new}

\* Line 64: while (looping.load())
loop_check(s) ==
    /\ ~crashed
    /\ s \in samplers
    /\ s.pc = "check"
    /\ IF recorders_[s.cpu].looping
       THEN /\ Recorded(s.cpu) < MaxSamples
            /\ samplers' = Replace(s, [s EXCEPT !.pc = "iter", !.it = 0])
       ELSE samplers' = Replace(s, [s EXCEPT !.pc = "done"])
    /\ ret' = NoRet
    /\ UNCHANGED <<registry, spawned, clock, crashed, affinity, pc, frame, ghosts>>

\* measurement_clock::now(): monotonic, may have advanced since the last call
now(ticks) == IF clock + ticks > MaxTime THEN MaxTime ELSE clock + ticks

\* timelines[ci.second].emplace_back(now(), device_(ci.second))
emplace_back(c, item, entry) ==
    [values_ EXCEPT ![c] = Put(@, item, Append(TimelineOf(c, item), entry))]

\* Lines 66-72: one pass of the for loop over cis, which is knobs_ itself (a
\* reference); after the last entry the thread sleeps and tests the flag again.
\* device_(ci.second) may throw: loop() catches nothing, so the exception
\* leaves the thread function and std::terminate() ends the process.
loop_sample(s) ==
    /\ ~crashed
    /\ s \in samplers
    /\ s.pc = "iter"
    /\ NextNames(s.it) # {}
    /\ LET name == NextName(s.it)
           rank == NameRank[name]
       IN \/ \E ticks \in {0, 1}, v \in DeviceValues :
               /\ clock' = now(ticks)
               /\ values_' = emplace_back(s.cpu, knobs_[name], <<now(ticks), v>>)
               /\ samplers' = Replace(s, IF NextNames(rank) = {}
                                         THEN [s EXCEPT !.pc = "check", !.it = 0]
                                         ELSE [s EXCEPT !.it = rank])
               /\ UNCHANGED crashed
          \/ /\ samplers' = Replace(s, [s EXCEPT !.pc = "threw"])
             /\ crashed' = TRUE
             /\ UNCHANGED <<clock, values_>>
    /\ ret' = NoRet
    /\ UNCHANGED <<knobs_, recorded_knobs_, recorders_, init_mutex, spawned,
                   affinity, pc, frame, ghosts>>

\* ---------------------------------------------------------- get_all_values
\* a stop() that skips the test of running_
stop_unguarded(c) == FALSE

\* Lines 95-96: if (!running_) return;
stop_returns_at_once(c) == ~recorders_[c].running_

\* a flag cleared for the recorders of all CPUs
store_false_everywhere(c) ==
    [d \in DOMAIN recorders_ |-> [recorders_[d] EXCEPT !.looping = FALSE]]

\* Line 98: looping.store(false) on the recorder of CPU c
store_false(c) == [recorders_ EXCEPT ![c].looping = FALSE]

\* Lines 213-216 and 95-98: oid = recorded_knobs_[id], recorders_[cpu]->stop()
\* up to the join.  No lock is taken.  stop() returns at once when running_
\* is false (ret.val = 0: it has not joined), otherwise it clears the flag.
get_all_values_begin(t, id) ==
    /\ ~crashed
    /\ pc[t] = "idle"
    /\ id \in returned
    /\ TotalHarvests < MaxHarvests
    /\ harvests' = [harvests EXCEPT ![id + 1] = @ + 1]
    /\ LET cpu == recorded_knobs_[id + 1].cpu
       IN /\ frame' = [frame EXCEPT ![t] = [NoFrame EXCEPT !.cpu = cpu, !.id = id]]
          /\ IF stop_returns_at_once(cpu)
             THEN /\ pc' = [pc EXCEPT ![t] = "gv_read"]
                  /\ quiesced' = [quiesced EXCEPT ![cpu] = TRUE]
                  /\ ret' = Return(t, "stop", 0, <<>>)
                  /\ UNCHANGED recorders_
             ELSE /\ recorders_' = store_false(cpu)
                  /\ pc' = [pc EXCEPT ![t] = "gv_join"]
                  /\ ret' = NoRet
                  /\ UNCHANGED quiesced
    /\ UNCHANGED <<knobs_, recorded_knobs_, values_, init_mutex, samplers,
                   spawned, clock, crashed, affinity, opens, created, calls,
                   returned, nDelivered>>

\* Lines 100-104: thread_->join(), thread_.reset(nullptr), running_ = false
\* and stop() returns (ret.val = 1: it has joined).  join() blocks until the
\* thread has left loop(); a thread_ that another stop() has reset in the
\* meantime is a null dereference.
recorder_stop_join(t) ==
    /\ ~crashed
    /\ pc[t] = "gv_join"
    /\ LET cpu == frame[t].cpu
           tid == recorders_[cpu].thread_
       IN IF tid = NullThread
          THEN /\ crashed' = TRUE
               /\ ret' = NoRet
               /\ UNCHANGED <<recorders_, samplers, pc, quiesced>>
          ELSE /\ \E s \in samplers :
                    /\ s.tid = tid
                    /\ s.pc = "done"
                    /\ samplers' = samplers \ {s}
               /\ recorders_' = [recorders_ EXCEPT ![cpu].thread_ = NullThread,
                                                   ![cpu].running_ = FALSE]
               /\ quiesced' = [quiesced EXCEPT ![cpu] = TRUE]
               /\ pc' = [pc EXCEPT ![t] = "gv_read"]
               /\ ret' = Return(t, "stop", 1, <<>>)
               /\ UNCHANGED crashed
    /\ UNCHANGED <<knobs_, recorded_knobs_, values_, init_mutex, spawned, clock,
                   affinity, frame, opens, created, calls, returned,
                   harvests, nDelivered>>

\* Two stop() calls that both found running_ true join the same std::thread:
\* the join of the second one may fail with std::system_error instead of
\* blocking, which leaves get_all_values before anything is read.
recorder_stop_join_race(t) ==
    /\ ~crashed
    /\ pc[t] = "gv_join"
    /\ recorders_[frame[t].cpu].thread_ # NullThread
    /\ \E u \in Threads \ {t} : pc[u] = "gv_join" /\ frame[u].cpu = frame[t].cpu
    /\ ret' = Error(t, "JoinFailed")
    /\ pc' = [pc EXCEPT ![t] = "idle"]
    /\ frame' = [frame EXCEPT ![t] = NoFrame]
    /\ UNCHANGED <<registry, samplers, spawned, clock, crashed, affinity,
                   ghosts>>

\* what the copy of a timeline can hold: the timeline itself, or, when a
\* background thread of that CPU is appending meanwhile, a torn last entry
copy_of(c, tl) ==
    {tl} \cup (IF Alive(c) # {} /\ tl # <<>>
               THEN {[tl EXCEPT ![Len(tl)] = Torn]} ELSE {})

\* Lines 218-227: knob = oid.item, timeline = values_[cpu][knob] (operator[]
\* creates a missing key), then every entry goes to the cursor in order.
get_all_values_read(t) ==
    /\ ~crashed
    /\ pc[t] = "gv_read"
    /\ LET cpu == frame[t].cpu
           id == frame[t].id
           knob == recorded_knobs_[id + 1].item
       IN /\ values_' = [values_ EXCEPT ![cpu] = Put(@, knob, TimelineOf(cpu, knob))]
          /\ \E timeline \in copy_of(cpu, TimelineOf(cpu, knob)) :
               /\ ret' = Return(t, "values", id, timeline)
               /\ nDelivered' = [nDelivered EXCEPT ![id + 1] = @ + Len(timeline)]
    /\ pc' = [pc EXCEPT ![t] = "idle"]
    /\ frame' = [frame EXCEPT ![t] = NoFrame]
    /\ UNCHANGED <<knobs_, recorded_knobs_, recorders_, init_mutex, samplers,
                   spawned, clock, crashed, affinity, opens, created, calls,
                   returned, harvests, quiesced>>

\* ------------------------------------------------------------ specification
Next ==
    \/ \E t \in Threads, name \in CallerNames : get_metric_properties(t, name)
    \/ \E t \in Threads, name \in DOMAIN Catalog : add_metric_begin(t, name)
    \/ \E t \in Threads : add_metric_lock(t)
    \/ \E t \in Threads : recorder_start_assign(t)
    \/ \E s \in samplers : loop_check(s)
    \/ \E s \in samplers : loop_sample(s)
    \/ \E t \in Threads, id \in returned : get_all_values_begin(t, id)
    \/ \E t \in Threads : recorder_stop_join(t)
    \/ \E t \in Threads : recorder_stop_join_race(t)
    \/ \E t \in Threads : get_all_values_read(t)

Spec == Init /\ [][Next]_vars

\* ------------------------------------------------------------------ claims
HandleCpu(h) == recorded_knobs_[h + 1].cpu
HandleItem(h) == recorded_knobs_[h + 1].item

\* the recorder of a CPU is Stopped and its thread is joined: running_ is
\* false, thread_ is empty and no background thread of that CPU exists
Quiet(c) ==
    /\ ~recorders_[c].running_
    /\ recorders_[c].thread_ = NullThread
    /\ {s \in samplers : s.cpu = c} = {}

\* the recorder of a CPU is Running: the process lives, running_ is true and
\* the thread it holds has not left loop()
Running(c) ==
    /\ ~crashed
    /\ c \in DOMAIN recorders_
    /\ recorders_[c].running_
    /\ \E s \in Alive(c) : s.tid = recorders_[c].thread_

NonDecreasing(tl) == \A i, j \in DOMAIN tl : i <= j => tl[i][1] <= tl[j][1]

\* C1: whenever get_all_values is about to read a timeline of CPU c (stop()
\* has returned, the copy is not made yet), the recorder of c is Stopped with
\* its thread joined, so that no background thread can append during the read.
C1_ReadOnlyWhileStopped ==
    \A t \in Threads : pc[t] = "gv_read" => Quiet(frame[t].cpu)

\* C2: no CPU ever has two background threads that have not left loop(), and
\* start() runs only on a recorder whose running_ is false.
C2_OneRunPerSampler ==
    /\ \A c \in CPUs : Cardinality(Alive(c)) <= 1
    /\ \A t \in Threads : pc[t] = "am_assign" => ~recorders_[frame[t].cpu].running_

\* C3: once stop() has returned for a CPU and until start() is called again
\* for it, the recorder is Stopped, its thread is joined and no background
\* thread exists that could append to a timeline of that CPU.
C3_QuietAfterStop ==
    \A c \in DOMAIN recorders_ : quiesced[c] => Quiet(c)

\* C4: a get_all_values call that returned wrote to its cursor exactly the
\* timeline of the handle's (item, cpu) pair, in recorded order, and that
\* order is non-decreasing in the timestamps.
C4_HarvestDeliversTimeline ==
    ret.kind = "values" =>
        /\ ret.out = TimelineOf(HandleCpu(ret.val), HandleItem(ret.val))
        /\ NonDecreasing(ret.out)

\* C5: over all get_all_values calls of one handle, no recorded sample is
\* delivered twice: the number of entries delivered for the handle never
\* exceeds the number of entries its timeline holds.
C5_DeliveredOnce ==
    \A h \in returned :
        nDelivered[h + 1] <= Len(TimelineOf(HandleCpu(h), HandleItem(h)))

\* C6: from the return of add_metric with handle h until the first
\* get_all_values call for h, the recorder of h's CPU is Running.
C6_RunningUntilHarvest ==
    \A h \in returned : harvests[h + 1] = 0 => Running(HandleCpu(h))

\* C7: every entry a background thread appends is for an item that the handle
\* table held for the thread's CPU when start() created the thread.
C7_SamplesOnlyRegistered ==
    [][\A s \in samplers : loop_sample(s) => knobs_[NextName(s.it)] \in s.regd]_vars

\* C8: an add_metric call of a thread whose affinity mask holds more than one
\* CPU returns the NotPinned error in that step and changes nothing: no
\* recorder, no background thread, no device open, no handle, no lock.
C8_NotPinnedChangesNothing ==
    [][\A t \in Threads :
         (calls'[t] # calls[t] /\ Cardinality(affinity[t]) > 1) =>
             /\ ret' = Error(t, "NotPinned")
             /\ UNCHANGED <<knobs_, recorded_knobs_, recorders_, values_,
                            init_mutex, samplers, spawned, opens, created,
                            returned, pc, frame>>]_vars

\* an add_metric call of a thread with two CPUs in its mask has just returned
C8_Witness ==
    /\ ret.kind = "NotPinned"
    /\ Cardinality(affinity[ret.t]) > 1
    /\ calls[ret.t] > 0

\* C9: a control thread that stands where it reads or writes the handle table
\* or the recorder map holds init_mutex: inside start() in add_metric, and
\* in get_all_values before the read of oid.item and values_.
C9_RegistryUnderMutex ==
    \A t \in Threads : pc[t] \in {"am_assign", "gv_read"} => init_mutex = t

\* the control threads that called add_metric and may run on CPU c
Activators(c) == {t \in Threads : calls[t] > 0 /\ c \in affinity[t]}

\* C10: for a CPU that exactly one thread, pinned to it, activated exactly
\* once (other threads activating other CPUs meanwhile), once that call has
\* returned a handle there is exactly one recorder for the CPU, one recorder
\* was constructed, one background thread at most, and one device open.
C10_OneSamplerPerCpu ==
    \A c \in CPUs :
        (/\ Cardinality(Activators(c)) = 1
         /\ \A t \in Activators(c) : calls[t] = 1 /\ affinity[t] = {c}
         /\ \E h \in returned : HandleCpu(h) = c)
        => /\ c \in DOMAIN recorders_
           /\ created[c] = 1
           /\ opens[c] = 1
           /\ Cardinality({s \in samplers : s.cpu = c}) <= 1

\* two threads pinned to different CPUs have both activated, one call each
C10_Witness ==
    /\ \A t \in Threads : calls[t] = 1
    /\ returned = {0, 1}
    /\ HandleCpu(0) # HandleCpu(1)
    /\ \A c \in CPUs : opens[c] = 1 /\ c \in DOMAIN recorders_

\* C11: two handles of one CPU for distinct items: once the recorder of that
\* CPU is Stopped with its thread joined, the two timelines have the same
\* number of entries and their i-th entries carry the same timestamp.
C11_SharedTimestamps ==
    \A g, h \in returned :
        (/\ HandleCpu(g) = HandleCpu(h)
         /\ HandleItem(g) # HandleItem(h)
         /\ Quiet(HandleCpu(h)))
        => LET a == TimelineOf(HandleCpu(g), HandleItem(g))
               b == TimelineOf(HandleCpu(h), HandleItem(h))
           IN /\ Len(a) = Len(b)
              /\ \A i \in DOMAIN a : a[i][1] = b[i][1]

\* C12: an add_metric call that returns a handle returns the number of calls
\* that returned one before it, a handle no earlier call returned, and no
\* step changes or removes a record of the handle table.
C12_DenseStableHandles ==
    [][/\ ret'.kind = "handle" =>
            /\ ret'.val = Cardinality(returned)
            /\ ret'.val \notin returned
       /\ \A i \in DOMAIN recorded_knobs_ :
            /\ i \in DOMAIN recorded_knobs_'
            /\ recorded_knobs_'[i] = recorded_knobs_[i]]_vars

\* C13: a get_metric_properties call for a name that knobs_ already holds
\* returns the item knobs_ holds for it, which is the one the first call
\* returned, and changes neither knobs_, the handle table, a recorder, a
\* background thread nor a timeline.
C13_DeclareIdempotent ==
    [][(ret'.kind = "item" /\ ret'.out[1] \in DOMAIN knobs_) =>
          /\ ret'.val = knobs_[ret'.out[1]]
          /\ UNCHANGED <<knobs_, recorded_knobs_, recorders_, values_, samplers>>]_vars

\* a name has been declared again after a timeline was recorded for its item
C13_Witness ==
    /\ ret.kind = "item"
    /\ recorded_knobs_ # <<>>
    /\ \E c \in CPUs : TimelineOf(c, ret.val) # <<>>

\* C14: a get_all_values call on a handle whose recorder has running_ false:
\* stop() returns in that step without a join and leaves the recorder (flag,
\* thread_, running_), every background thread and every timeline as they
\* were; the read that follows changes no recorder and no background thread.
C14_StopOnStoppedIsNoOp ==
    [][/\ \A h \in returned :
            (/\ harvests'[h + 1] # harvests[h + 1]
             /\ ~recorders_[HandleCpu(h)].running_)
            => /\ ret'.kind = "stop"
               /\ ret'.val = 0
               /\ UNCHANGED <<recorders_, samplers, values_>>
       /\ \A t \in Threads :
            (pc[t] = "gv_read" /\ pc'[t] # pc[t]) => UNCHANGED <<recorders_, samplers>>]_vars

\* stop() has returned at once on a Stopped recorder that holds entries
C14_Witness ==
    /\ ret.kind = "stop"
    /\ ret.val = 0
    /\ pc[ret.t] = "gv_read"
    /\ Quiet(frame[ret.t].cpu)
    /\ Recorded(frame[ret.t].cpu) > 0

\* C15: as long as no device read has thrown, a stop() that has cleared the
\* flag and waits in join() is not cut off by the end of the process, and the
\* thread it waits for, once it stands at the test of the flag, starts no
\* further iteration.
C15_StopReturns ==
    /\ [](\A t \in Threads :
            (pc[t] = "gv_join" /\ \A s \in samplers : s.pc # "threw") => ~crashed)
    /\ [][\A s \in samplers, t \in Threads :
            (/\ pc[t] = "gv_join"
             /\ frame[t].cpu = s.cpu
             /\ recorders_[s.cpu].thread_ = s.tid
             /\ s.pc = "check")
            => \A u \in samplers' : u.tid = s.tid => u.pc # "iter"]_vars

\* C16: after a device read has thrown inside loop(), the process lives on,
\* so that the next stop() can join the thread and report the failure.
C16_ReadFailureIsReported ==
    \A s \in samplers : s.pc = "threw" => ~crashed

\* C17: an add_metric call whose new thread got an error from
\* sched_setaffinity does not return a handle.
C17_AffinityFailureFailsStart ==
    [][(ret.kind = "sched_setaffinity" /\ ret.val # 0)
         => ~(ret'.kind = "handle" /\ ret'.t = ret.t)]_vars

\* the errors add_metric leaves with
ActivateErrors ==
    {"NotPinned", "GetCpuFailed", "DeviceOpenFailure", "OutOfRange", "SpawnFailed"}

\* C18: the step in which add_metric leaves with an error changes neither the
\* handle table, the recorder map nor a recorder (running_, flag, thread_).
C18_FailedActivateChangesNothing ==
    [][ret'.kind \in ActivateErrors => UNCHANGED <<recorded_knobs_, recorders_>>]_vars

\* C19: a control thread that waits in stop() for the join finds thread_
\* non-empty (the handle is not used after its release), and no join fails
\* because another stop() joins the same thread.
C19_JoinedOnce ==
    /\ \A t \in Threads :
         (pc[t] = "gv_join" /\ ~crashed) => recorders_[frame[t].cpu].thread_ # NullThread
    /\ ret.kind # "JoinFailed"

\* C20: every step of a get_all_values call on a handle of CPU c leaves the
\* handle table as it was and, for every other CPU d, the recorder (running_,
\* flag, thread_), the background threads and the timelines of d.
C20_HarvestTouchesOneCpu ==
    [][\A t \in Threads :
         (/\ pc'[t] # pc[t]
          /\ \/ pc[t] \in {"gv_join", "gv_read"}
             \/ pc'[t] \in {"gv_join", "gv_read"})
         => LET c == IF pc[t] = "idle" THEN frame'[t].cpu ELSE frame[t].cpu
            IN /\ recorded_knobs_' = recorded_knobs_
               /\ DOMAIN recorders_' = DOMAIN recorders_
               /\ DOMAIN values_' = DOMAIN values_
               /\ \A d \in CPUs \ {c} :
                    /\ d \in DOMAIN recorders_ => recorders_'[d] = recorders_[d]
                    /\ d \in DOMAIN values_ => values_'[d] = values_[d]
                    /\ {s \in samplers' : s.cpu = d} = {s \in samplers : s.cpu = d}]_vars

\* get_all_values has returned the timeline of a handle while the recorder of
\* another CPU is Running and holds entries
C20_Witness ==
    /\ ret.kind = "values"
    /\ \E d \in CPUs \ {HandleCpu(ret.val)} : Running(d) /\ Recorded(d) > 0

====
